---- MODULE Spec2Model ----
(***************************************************************************)
(* The ChatRoom Durable Object of familyrealtime: one room's signaling     *)
(* coordinator.  The state is the room's session array, its participant    *)
(* Map, the transport state of every accepted WebSocket and the messages   *)
(* each client has been sent.  Every listener runs to completion without   *)
(* an await inside, so one listener invocation is one action.              *)
(***************************************************************************)
EXTENDS Integers, Sequences, FiniteSets, TLC

\* ------------------------------------------------------------------------
\* Bounds of the model
\* ------------------------------------------------------------------------
MaxSockets == 3
MaxEvents == 6
MaxRoomEvents == 5
MaxStepEvents == 5
MaxJoins == 2
MaxPageEvents == 3

\* ------------------------------------------------------------------------
\* Values
\* ------------------------------------------------------------------------
\* WebSocket.readyState values the code distinguishes: OPEN and anything else.
OPEN == "OPEN"
CLOSED == "CLOSED"

\* The JavaScript value undefined (a field that the message does not carry).
undefined == "<undefined>"

\* Track descriptors a client may publish (opaque to the coordinator).
Cam == [mid |-> "0", trackName |-> "cam", kind |-> "video"]
Mic == [mid |-> "1", trackName |-> "mic", kind |-> "audio"]

\* Session ids a client may choose (any string, the empty one included).
StringIds == {"", "a1", "b1"}

\* Field access as JavaScript does it: a missing field reads as undefined.
Get(obj, f) == IF f \in DOMAIN obj THEN obj[f] ELSE undefined

joinRoom(sessionId, userName, trackInfo) ==
  [type |-> "joinRoom", sessionId |-> sessionId, userName |-> userName, trackInfo |-> trackInfo]

\* event.data as sent by a client, given by what JSON.parse makes of it:
\* joinRoom messages with a string sessionId (one id with two different
\* track lists, and the empty id), a joinRoom without sessionId, a message
\* of another type (carrying the fields a joinRoom carries), and a text that
\* is not JSON.
JoinRoomMessages ==
  { joinRoom("a1", "Ann", <<Cam>>), joinRoom("a1", "Ann", <<Cam, Mic>>),
    joinRoom("b1", "Bob", <<Cam>>), joinRoom("", "Eve", <<>>) }
NoIdJoinMessages == { [type |-> "joinRoom", userName |-> "Dan", trackInfo |-> <<Mic>>] }
OtherMessages ==
  { [type |-> "iceCandidate", sessionId |-> "a1", userName |-> "Ann", trackInfo |-> <<Cam>>] }
NotJSON == { [syntaxError |-> TRUE] }
EventData == JoinRoomMessages \cup NoIdJoinMessages \cup OtherMessages \cup NotJSON

\* JSON.parse(event.data) throws a SyntaxError on a text that is not JSON.
JSONparseThrows(data) == "syntaxError" \in DOMAIN data

\* Mutant of IsJoinRoom: the message type is not looked at.
IsJoinRoomAnyType(message) == TRUE

\* if (message.type === 'joinRoom')
IsJoinRoom(message) == Get(message, "type") = "joinRoom"

\* sessionId.substring(...) throws a TypeError unless sessionId is a string.
IsString(v) == v # undefined

\* JavaScript truthiness of an id: undefined and the empty string are falsy.
Truthy(v) == v # undefined /\ v # ""

\* JSON.stringify leaves out a field whose value is undefined (of the fields
\* the coordinator sends, only a sessionId can be), also inside the entries
\* of a participants array.
StripUndefined(obj) ==
  IF "sessionId" \in DOMAIN obj /\ obj.sessionId = undefined
    THEN [f \in DOMAIN obj \ {"sessionId"} |-> obj[f]]
    ELSE obj

JSONstringify(msg) ==
  LET top == StripUndefined(msg)
  IN  IF "participants" \in DOMAIN top
        THEN [top EXCEPT !.participants = [i \in 1..Len(@) |-> StripUndefined(@[i])]]
        ELSE top

Range(s) == {s[i] : i \in 1..Len(s)}

VARIABLES
  sessions,      \* this.sessions: array of the WebSockets attached to the room
  participants,  \* this.participants: Map sessionId -> {ws, userName, trackInfo}, in insertion order
  readyState,    \* readyState of every accepted WebSocket (index = the socket)
  listening,     \* sockets whose listeners can still be called (close not yet dispatched)
  inbox,         \* per socket, the messages session.send() has delivered to its client
  joins,         \* per socket, the sessionIds of the joinRoom messages whose record was stored
  lastEvent,     \* the event processed last, numbered
  page           \* the variables of one client page (its script's let declarations and what hangs off them)

vars == <<sessions, participants, readyState, listening, inbox, joins, lastEvent, page>>

Sockets == 1..Len(readyState)

\* ------------------------------------------------------------------------
\* Map operations (a JavaScript Map keeps insertion order; set() on an
\* existing key replaces the value in place)
\* ------------------------------------------------------------------------
\* Mutant of MapSet: the record is always added (an array push instead of a
\* Map set).
MapSetAlwaysAppends(m, k, v) ==
  Append(m, [sessionId |-> k, ws |-> v.ws, userName |-> v.userName, trackInfo |-> v.trackInfo])

\* Mutant of MapSet: a key that is present keeps its first record.
MapSetKeepsFirst(m, k, v) ==
  IF \E i \in 1..Len(m) : m[i].sessionId = k
    THEN m
    ELSE Append(m, [sessionId |-> k, ws |-> v.ws, userName |-> v.userName,
                    trackInfo |-> v.trackInfo])

MapHas(m, k) == \E i \in 1..Len(m) : m[i].sessionId = k

MapSet(m, k, v) ==
  LET entry == [sessionId |-> k, ws |-> v.ws, userName |-> v.userName, trackInfo |-> v.trackInfo]
  IN  IF MapHas(m, k)
        THEN [i \in 1..Len(m) |-> IF m[i].sessionId = k THEN entry ELSE m[i]]
        ELSE Append(m, entry)

MapKeys(m) == {m[i].sessionId : i \in 1..Len(m)}

\* ------------------------------------------------------------------------
\* Sending
\* ------------------------------------------------------------------------
\* session.send(JSON.stringify(msg))
Send(inb, session, msg) == [inb EXCEPT ![session] = Append(@, JSONstringify(msg))]

\* Mutant of SendAll: the loop ends after its first send.
SendAllFirstOnly(inb, list, msg) ==
  IF list = <<>> THEN inb ELSE [inb EXCEPT ![Head(list)] = Append(@, msg)]

\* list.forEach(session => session.send(msg))
RECURSIVE SendAll(_, _, _)
SendAll(inb, list, msg) ==
  IF list = <<>> THEN inb
  ELSE SendAll(Send(inb, Head(list), msg), Tail(list), msg)

\* ------------------------------------------------------------------------
\* The pieces of the listeners
\* ------------------------------------------------------------------------
\* Mutant of JoinRecipients: readyState is not looked at.
JoinRecipientsAnyState(ws) ==
  SelectSeq(sessions, LAMBDA session : session # ws)

\* Mutant of JoinRecipients: the sender is not skipped.
JoinRecipientsWithSender(ws) ==
  SelectSeq(sessions, LAMBDA session : readyState[session] = OPEN)

\* The sessions a join is announced to: every session of the room other than
\* the sender whose readyState is OPEN, in array order.
JoinRecipients(ws) ==
  SelectSeq(sessions, LAMBDA session : session # ws /\ readyState[session] = OPEN)

participantJoined(sessionId, userName, trackInfo) ==
  [type |-> "participantJoined", sessionId |-> sessionId,
   userName |-> userName, trackInfo |-> trackInfo]

\* Mutant of existingParticipants: the entries are the Map's values as they
\* are, the ws reference included.
RECURSIVE existingParticipantsWithWs(_, _)
existingParticipantsWithWs(m, sessionId) ==
  IF m = <<>> THEN <<>>
  ELSE IF Head(m).sessionId # sessionId
         THEN <<Head(m)>> \o existingParticipantsWithWs(Tail(m), sessionId)
         ELSE existingParticipantsWithWs(Tail(m), sessionId)

\* Mutant of existingParticipants: the reply lists nobody.
existingParticipantsNone(m, sessionId) == <<>>

\* Mutant of existingParticipants: the joiner's own entry is not left out.
existingParticipantsWithSelf(m, sessionId) ==
  [i \in 1..Len(m) |-> [sessionId |-> m[i].sessionId, userName |-> m[i].userName,
                        trackInfo |-> m[i].trackInfo]]

\* The existingParticipants array: every entry of the Map whose key is not
\* the joiner's sessionId, in Map order, reduced to the three public fields.
RECURSIVE existingParticipants(_, _)
existingParticipants(m, sessionId) ==
  IF m = <<>> THEN <<>>
  ELSE LET data == Head(m)
           rest == existingParticipants(Tail(m), sessionId)
       IN  IF data.sessionId # sessionId
             THEN <<[sessionId |-> data.sessionId, userName |-> data.userName,
                     trackInfo |-> data.trackInfo]>> \o rest
             ELSE rest

\* Mutant of FirstOwned: the scan does not compare the entry's ws.
FirstOwnedAny(m, ws) == IF m = <<>> THEN 0 ELSE 1

\* The close listener's scan: the position in the Map of the first entry
\* whose ws is the closing socket, 0 when there is none.
RECURSIVE FirstOwned(_, _)
FirstOwned(m, ws) ==
  IF m = <<>> THEN 0
  ELSE IF Head(m).ws = ws THEN 1
  ELSE LET k == FirstOwned(Tail(m), ws) IN IF k = 0 THEN 0 ELSE k + 1

\* let leavingSessionId: the key of the entry the scan stopped at, left
\* undefined when the scan found none.
leavingSessionId(m, ws) ==
  IF FirstOwned(m, ws) = 0 THEN undefined ELSE m[FirstOwned(m, ws)].sessionId

\* The Map after the scan: the entry the scan stopped at is deleted.
RemoveLeaving(m, ws) ==
  LET k == FirstOwned(m, ws)
  IN  IF k = 0 THEN m ELSE [i \in 1..(Len(m) - 1) |-> IF i < k THEN m[i] ELSE m[i + 1]]

\* The sessions a departure is announced to: the remaining sessions whose
\* readyState is OPEN.
LeftRecipients(remaining) ==
  SelectSeq(remaining, LAMBDA session : readyState[session] = OPEN)

\* The close listener announces the departure only if the id it found is truthy.
AnnouncesLeft(id) == Truthy(id)

Event(type, ws, data) ==
  [n |-> lastEvent.n + 1, type |-> type, ws |-> ws, data |-> data]

NoData == [none |-> TRUE]

\* ------------------------------------------------------------------------
\* Initial state: the constructor, and the page as loaded
\* ------------------------------------------------------------------------
\* The page before any click: let ws, localSessionId, localPeerConnection,
\* localStream are undefined (0 stands for "no object"), the map is empty,
\* Join is enabled and Leave is disabled.  The objects a joinRoom call
\* creates (stream, Calls session, peer connection, socket) carry the number
\* of the call.
\*   remoteParticipantsMap  the keys of the Map
\*   joins       position of every joinRoom call made so far ("done" once it returned)
\*   sockets     readyState of the WebSocket of every joinRoom call, once created
\*   dispatched  sockets whose close event has been dispatched
\*   stopped     local streams whose tracks have been stopped
\*   closed      peer connections that have been closed
\*   pulls       per remote id, the number of track-pull requests issued
\*   sent        the sessionIds of the joinRoom messages sent to the coordinator
\*   loops       the rest of every existingParticipants loop suspended at an await
\*   event       the page event handled last, numbered, with the call it made
RemoteIds == {"a1", "b1"}

PageInit ==
  [ ws |-> 0, localSessionId |-> undefined, localPeerConnection |-> 0, localStream |-> 0,
    remoteParticipantsMap |-> {},
    joinDisabled |-> FALSE, leaveDisabled |-> TRUE,
    joins |-> <<>>, sockets |-> <<>>, dispatched |-> {},
    stopped |-> {}, closed |-> {}, pulls |-> [id \in RemoteIds |-> 0], sent |-> <<>>,
    loops |-> <<>>,
    event |-> [n |-> 0, type |-> "load", ws |-> 0, call |-> "", id |-> "", has |-> FALSE] ]

Init ==
  /\ sessions = <<>>
  /\ participants = <<>>
  /\ readyState = <<>>
  /\ listening = {}
  /\ inbox = <<>>
  /\ joins = <<>>
  /\ lastEvent = [n |-> 0, type |-> "constructor", ws |-> 0, data |-> NoData]
  /\ page = PageInit

\* ------------------------------------------------------------------------
\* Actions of the coordinator (the page's variables are not theirs)
\* ------------------------------------------------------------------------
\* fetch('/websocket'): a new socket is accepted and handed to
\* handleWebSocket, which pushes it and registers the three listeners.
handleWebSocket ==
  /\ UNCHANGED page
  /\ Len(readyState) < MaxSockets
  /\ lastEvent.n < MaxEvents
  /\ LET ws == Len(readyState) + 1
     IN  /\ readyState' = Append(readyState, OPEN)
         /\ sessions' = Append(sessions, ws)
         /\ listening' = listening \cup {ws}
         /\ inbox' = Append(inbox, <<>>)
         /\ joins' = Append(joins, <<>>)
         /\ lastEvent' = Event("connect", ws, NoData)
  /\ UNCHANGED participants

\* The message listener of socket ws, called with event.data = data.
OnMessage(ws, data) ==
  /\ UNCHANGED page
  /\ ws \in listening
  /\ lastEvent.n < MaxEvents
  /\ lastEvent' = Event("message", ws, data)
  /\ UNCHANGED <<sessions, readyState, listening>>
  /\ IF JSONparseThrows(data) \/ ~IsJoinRoom(data)
       THEN UNCHANGED <<participants, inbox, joins>>
       ELSE LET sessionId == Get(data, "sessionId")
                userName == data.userName
                trackInfo == data.trackInfo
                stored == MapSet(participants, sessionId,
                                 [ws |-> ws, userName |-> userName, trackInfo |-> trackInfo])
                announced == SendAll(inbox, JoinRecipients(ws),
                                     participantJoined(sessionId, userName, trackInfo))
                reply == [type |-> "existingParticipants",
                          participants |-> existingParticipants(stored, sessionId)]
            IN  /\ participants' = stored
                /\ joins' = [joins EXCEPT ![ws] = Append(@, sessionId)]
                /\ IF ~IsString(sessionId)
                     THEN inbox' = inbox    \* sessionId.substring throws: the listener ends here
                     ELSE IF readyState[ws] = OPEN
                            THEN inbox' = Send(announced, ws, reply)
                            ELSE inbox' = announced

\* The close listener of socket ws.
OnClose(ws) ==
  /\ UNCHANGED page
  /\ ws \in listening
  /\ lastEvent.n < MaxEvents
  /\ lastEvent' = Event("close", ws, NoData)
  /\ listening' = listening \ {ws}
  /\ readyState' = [readyState EXCEPT ![ws] = CLOSED]
  /\ LET remaining == SelectSeq(sessions, LAMBDA s : s # ws)
         id == leavingSessionId(participants, ws)
     IN  /\ sessions' = remaining
         /\ participants' = RemoveLeaving(participants, ws)
         /\ inbox' = IF AnnouncesLeft(id)
                        THEN SendAll(inbox, LeftRecipients(remaining),
                                     [type |-> "participantLeft", sessionId |-> id])
                        ELSE inbox
  /\ UNCHANGED joins

\* The error listener of socket ws: it logs.
OnError(ws) ==
  /\ UNCHANGED page
  /\ ws \in listening
  /\ lastEvent.n < MaxEvents
  /\ lastEvent' = Event("error", ws, NoData)
  /\ UNCHANGED <<sessions, participants, readyState, listening, inbox, joins>>

\* The transport: the connection of ws stops being OPEN (the peer went away
\* or the connection broke); its close event has not been dispatched yet.
StopsBeingOpen(ws) ==
  /\ UNCHANGED page
  /\ ws \in listening
  /\ readyState[ws] = OPEN
  /\ lastEvent.n < MaxEvents
  /\ lastEvent' = Event("readyState", ws, NoData)
  /\ readyState' = [readyState EXCEPT ![ws] = CLOSED]
  /\ UNCHANGED <<sessions, participants, listening, inbox, joins>>

Next ==
  \/ handleWebSocket
  \/ \E ws \in Sockets, data \in EventData : OnMessage(ws, data)
  \/ \E ws \in Sockets : OnClose(ws)
  \/ \E ws \in Sockets : OnError(ws)
  \/ \E ws \in Sockets : StopsBeingOpen(ws)

Spec == Init /\ [][Next]_vars

\* ------------------------------------------------------------------------
\* Several rooms: the Worker's fetch handler routes a connection to the
\* ChatRoom instance of its room name.  Under SpecRooms the variables
\* sessions and participants hold one array and one Map per instance,
\* indexed by room name; an instance exists from its first connection on.
\* The sockets, their readyState and their inboxes are as under Spec.
\* ------------------------------------------------------------------------
\* url.searchParams.get('room') || 'default-room'
RoomNames == {"default-room", "family"}

Instances == DOMAIN sessions

\* The instance whose listeners are registered on ws (the `this` that the
\* listeners of ws close over): the one whose session array holds ws.
RoomOf(ws) == CHOOSE r \in Instances : ws \in Range(sessions[r])

Attached(ws) == \E r \in Instances : ws \in Range(sessions[r])

\* Mutant of RoomJoinRecipients: the session array is shared by all the
\* instances (a module-level array instead of a field of the instance).
RoomJoinRecipientsAllRooms(r, ws) ==
  SelectSeq([i \in 1..Len(readyState) |-> i],
            LAMBDA session : Attached(session) /\ session # ws /\ readyState[session] = OPEN)

\* JoinRecipients on the session array of instance r.
RoomJoinRecipients(r, ws) ==
  SelectSeq(sessions[r], LAMBDA session : session # ws /\ readyState[session] = OPEN)

\* index_default.fetch: env.CHAT_ROOM.idFromName(roomName) names one instance
\* per room name; its constructor runs on the first connection; then
\* ChatRoom.fetch accepts the socket and handleWebSocket pushes it.
fetch(roomName) ==
  /\ UNCHANGED page
  /\ Len(readyState) < MaxSockets
  /\ lastEvent.n < MaxRoomEvents
  /\ LET ws == Len(readyState) + 1
     IN  /\ readyState' = Append(readyState, OPEN)
         /\ IF roomName \in Instances
              THEN /\ sessions' = [sessions EXCEPT ![roomName] = Append(@, ws)]
                   /\ participants' = participants
              ELSE /\ sessions' = (roomName :> <<ws>>) @@ sessions
                   /\ participants' = (roomName :> <<>>) @@ participants
         /\ listening' = listening \cup {ws}
         /\ inbox' = Append(inbox, <<>>)
         /\ joins' = Append(joins, <<>>)
         /\ lastEvent' = Event("connect", ws, [room |-> roomName])

\* The message listener of socket ws, run by the instance of ws.
RoomOnMessage(ws, data) ==
  /\ UNCHANGED page
  /\ ws \in listening
  /\ lastEvent.n < MaxRoomEvents
  /\ lastEvent' = Event("message", ws, data)
  /\ UNCHANGED <<sessions, readyState, listening>>
  /\ IF JSONparseThrows(data) \/ ~IsJoinRoom(data)
       THEN UNCHANGED <<participants, inbox, joins>>
       ELSE LET this == RoomOf(ws)
                sessionId == Get(data, "sessionId")
                userName == data.userName
                trackInfo == data.trackInfo
                stored == MapSet(participants[this], sessionId,
                                 [ws |-> ws, userName |-> userName, trackInfo |-> trackInfo])
                announced == SendAll(inbox, RoomJoinRecipients(this, ws),
                                     participantJoined(sessionId, userName, trackInfo))
                reply == [type |-> "existingParticipants",
                          participants |-> existingParticipants(stored, sessionId)]
            IN  /\ participants' = [participants EXCEPT ![this] = stored]
                /\ joins' = [joins EXCEPT ![ws] = Append(@, sessionId)]
                /\ IF ~IsString(sessionId)
                     THEN inbox' = inbox
                     ELSE IF readyState[ws] = OPEN
                            THEN inbox' = Send(announced, ws, reply)
                            ELSE inbox' = announced

\* The close listener of socket ws, run by the instance of ws.
RoomOnClose(ws) ==
  /\ UNCHANGED page
  /\ ws \in listening
  /\ lastEvent.n < MaxRoomEvents
  /\ lastEvent' = Event("close", ws, NoData)
  /\ listening' = listening \ {ws}
  /\ readyState' = [readyState EXCEPT ![ws] = CLOSED]
  /\ LET this == RoomOf(ws)
         remaining == SelectSeq(sessions[this], LAMBDA s : s # ws)
         id == leavingSessionId(participants[this], ws)
     IN  /\ sessions' = [sessions EXCEPT ![this] = remaining]
         /\ participants' = [participants EXCEPT ![this] = RemoveLeaving(@, ws)]
         /\ inbox' = IF AnnouncesLeft(id)
                        THEN SendAll(inbox, LeftRecipients(remaining),
                                     [type |-> "participantLeft", sessionId |-> id])
                        ELSE inbox
  /\ UNCHANGED joins

NextRooms ==
  \/ \E roomName \in RoomNames : fetch(roomName)
  \/ \E ws \in Sockets, data \in EventData : RoomOnMessage(ws, data)
  \/ \E ws \in Sockets : RoomOnClose(ws)
  \/ \E ws \in Sockets : lastEvent.n < MaxRoomEvents /\ OnError(ws)
  \/ \E ws \in Sockets : lastEvent.n < MaxRoomEvents /\ StopsBeingOpen(ws)

SpecRooms == Init /\ [][NextRooms]_vars

\* ------------------------------------------------------------------------
\* Statement by statement: under SpecSteps a listener runs one statement
\* (one forEach iteration) per step, and the instance's event loop may
\* dispatch the next event only when no listener is on the stack or the
\* running listener is suspended at an await.  lastEvent carries the running
\* listener's position: pc (the statement it is at, "done" once it has
\* returned) and i (the index of the forEach it is in).
\* ------------------------------------------------------------------------
Running == "pc" \in DOMAIN lastEvent /\ lastEvent.pc # "done"

At(e, pc, i) ==
  [n |-> e.n, type |-> e.type, ws |-> e.ws, data |-> e.data, pc |-> pc, i |-> i]

\* Mutant of Awaits: the listener awaits before each forEach iteration.
AwaitsInForEach(pc) == pc \in {"forEach", "leftForEach"}

\* The statements at which a listener yields to the event loop: the three
\* listeners are synchronous callbacks with no await in them.
Awaits(pc) == FALSE

CanDispatch == IF Running THEN Awaits(lastEvent.pc) ELSE TRUE

\* The message listener is called: JSON.parse, the type test, the
\* destructuring, this.participants.set and the log line.
BeginMessage(ws, data) ==
  /\ UNCHANGED page
  /\ CanDispatch
  /\ ws \in listening
  /\ lastEvent.n < MaxStepEvents
  /\ UNCHANGED <<sessions, readyState, listening, inbox>>
  /\ IF JSONparseThrows(data) \/ ~IsJoinRoom(data)
       THEN /\ lastEvent' = At(Event("message", ws, data), "done", 0)
            /\ UNCHANGED <<participants, joins>>
       ELSE LET sessionId == Get(data, "sessionId")
            IN  /\ participants' = MapSet(participants, sessionId,
                                          [ws |-> ws, userName |-> data.userName,
                                           trackInfo |-> data.trackInfo])
                /\ joins' = [joins EXCEPT ![ws] = Append(@, sessionId)]
                /\ lastEvent' = At(Event("message", ws, data),
                                   IF ~IsString(sessionId) THEN "done"
                                   ELSE IF sessions = <<>> THEN "reply" ELSE "forEach", 1)

\* One iteration of this.sessions.forEach in the message listener.
JoinForEach ==
  /\ UNCHANGED page
  /\ Running
  /\ lastEvent.pc = "forEach"
  /\ LET ws == lastEvent.ws
         i == lastEvent.i
         data == lastEvent.data
         session == sessions[i]
     IN  /\ inbox' = IF session # ws /\ readyState[session] = OPEN
                        THEN Send(inbox, session,
                                  participantJoined(data.sessionId, data.userName, data.trackInfo))
                        ELSE inbox
         /\ lastEvent' = [lastEvent EXCEPT !.i = i + 1,
                                           !.pc = IF i + 1 > Len(sessions) THEN "reply" ELSE "forEach"]
  /\ UNCHANGED <<sessions, participants, readyState, listening, joins>>

\* The existing-participants list is built and sent to ws if it is OPEN.
JoinReply ==
  /\ UNCHANGED page
  /\ Running
  /\ lastEvent.pc = "reply"
  /\ LET ws == lastEvent.ws
         reply == [type |-> "existingParticipants",
                   participants |-> existingParticipants(participants, lastEvent.data.sessionId)]
     IN  inbox' = IF readyState[ws] = OPEN THEN Send(inbox, ws, reply) ELSE inbox
  /\ lastEvent' = [lastEvent EXCEPT !.pc = "done"]
  /\ UNCHANGED <<sessions, participants, readyState, listening, joins>>

\* The close listener is called: the log line and the filter of this.sessions.
BeginClose(ws) ==
  /\ UNCHANGED page
  /\ CanDispatch
  /\ ws \in listening
  /\ lastEvent.n < MaxStepEvents
  /\ listening' = listening \ {ws}
  /\ readyState' = [readyState EXCEPT ![ws] = CLOSED]
  /\ sessions' = SelectSeq(sessions, LAMBDA s : s # ws)
  /\ lastEvent' = At(Event("close", ws, NoData), "scan", 1)
  /\ UNCHANGED <<participants, inbox, joins>>

\* The scan of this.participants with its delete and break, and the test of
\* leavingSessionId.
CloseScan ==
  /\ UNCHANGED page
  /\ Running
  /\ lastEvent.pc = "scan"
  /\ LET id == leavingSessionId(participants, lastEvent.ws)
     IN  /\ participants' = RemoveLeaving(participants, lastEvent.ws)
         /\ lastEvent' = [lastEvent EXCEPT
                            !.data = [leavingSessionId |-> id],
                            !.pc = IF AnnouncesLeft(id) /\ sessions # <<>>
                                     THEN "leftForEach" ELSE "done"]
  /\ UNCHANGED <<sessions, readyState, listening, inbox, joins>>

\* One iteration of this.sessions.forEach in the close listener.
CloseForEach ==
  /\ UNCHANGED page
  /\ Running
  /\ lastEvent.pc = "leftForEach"
  /\ LET i == lastEvent.i
         session == sessions[i]
     IN  /\ inbox' = IF readyState[session] = OPEN
                        THEN Send(inbox, session,
                                  [type |-> "participantLeft",
                                   sessionId |-> lastEvent.data.leavingSessionId])
                        ELSE inbox
         /\ lastEvent' = [lastEvent EXCEPT !.i = i + 1,
                                           !.pc = IF i + 1 > Len(sessions) THEN "done"
                                                  ELSE "leftForEach"]
  /\ UNCHANGED <<sessions, participants, readyState, listening, joins>>

Dispatch == CanDispatch /\ lastEvent.n < MaxStepEvents

NextSteps ==
  \/ Dispatch /\ handleWebSocket
  \/ \E ws \in Sockets, data \in EventData : BeginMessage(ws, data)
  \/ JoinForEach
  \/ JoinReply
  \/ \E ws \in Sockets : BeginClose(ws)
  \/ CloseScan
  \/ CloseForEach
  \/ \E ws \in Sockets : Dispatch /\ OnError(ws)
  \/ \E ws \in Sockets : Dispatch /\ StopsBeingOpen(ws)

SpecSteps == Init /\ [][NextSteps]_vars

\* ------------------------------------------------------------------------
\* The client page.  Under SpecClient the page's script runs against an
\* arbitrary coordinator: the user clicks Join and Leave, every await of
\* joinRoom and of the existingParticipants loop is a point where other
\* handlers run, and the sockets open, deliver messages and close as the
\* transport decides.  A resumed await stands for its promise resolving; of
\* the ways an awaited call can fail only the TypeError of calling a method
\* on localPeerConnection when it is null is followed.
\* ------------------------------------------------------------------------
null == "<null>"
CONNECTING == "CONNECTING"
CLOSING == "CLOSING"
NotCreated == "not created"

coordinator == <<sessions, participants, readyState, listening, inbox, joins, lastEvent>>

\* sessionResponse.sessionId of the Calls session the k-th joinRoom creates
CallsIds == <<"c1", "c2", "c3", "c4">>

RemoteA == [sessionId |-> "a1", userName |-> "Ann", trackInfo |-> <<Cam>>]
RemoteB == [sessionId |-> "b1", userName |-> "Bob", trackInfo |-> <<Cam, Mic>>]

\* What the coordinator may send to a page
PageMessages ==
  { participantJoined(RemoteA.sessionId, RemoteA.userName, RemoteA.trackInfo),
    participantJoined(RemoteB.sessionId, RemoteB.userName, RemoteB.trackInfo),
    [type |-> "existingParticipants", participants |-> <<RemoteA, RemoteB>>],
    [type |-> "participantLeft", sessionId |-> "a1"],
    [type |-> "participantLeft", sessionId |-> "b1"] }

PageSockets == {s \in 1..Len(page.sockets) : page.sockets[s] # NotCreated}

Handled(p, type, ws, call, id, has) ==
  [p EXCEPT !.event = [n |-> p.event.n + 1, type |-> type, ws |-> ws,
                       call |-> call, id |-> id, has |-> has]]

\* cleanupSession()
cleanupSession(p) ==
  [p EXCEPT !.joinDisabled = FALSE,
            !.leaveDisabled = TRUE,
            !.stopped = IF p.localStream # 0 THEN @ \cup {p.localStream} ELSE @,
            !.closed = IF p.localPeerConnection # 0 THEN @ \cup {p.localPeerConnection} ELSE @,
            !.localPeerConnection = 0,
            !.localSessionId = null,
            !.remoteParticipantsMap = {}]

\* ws.onclose / ws.onerror of socket s: cleanupSession(), whichever socket
\* the page's ws is by now.
cleanupSessionOf(p, s) == cleanupSession(p)

\* Mutant of handleNewRemoteParticipant: no has() test.
handleNewRemoteParticipantAlways(p, remoteSessionId) ==
  [p EXCEPT !.remoteParticipantsMap = @ \cup {remoteSessionId},
            !.pulls = [@ EXCEPT ![remoteSessionId] = @ + 1]]

\* handleNewRemoteParticipant up to its first await: the has() test, the
\* set() and the fetch that asks to pull the remote tracks.
handleNewRemoteParticipant(p, remoteSessionId) ==
  IF remoteSessionId \in p.remoteParticipantsMap
    THEN p
    ELSE [p EXCEPT !.remoteParticipantsMap = @ \cup {remoteSessionId},
                   !.pulls = [@ EXCEPT ![remoteSessionId] = @ + 1]]

\* removeRemoteParticipant(sessionId)
removeRemoteParticipant(p, sessionId) ==
  IF sessionId \in p.remoteParticipantsMap
    THEN [p EXCEPT !.remoteParticipantsMap = @ \ {sessionId}]
    ELSE p

\* click on Join: joinRoom() runs up to its first await (getUserMedia).
JoinClick ==
  /\ ~page.joinDisabled
  /\ Len(page.joins) < MaxJoins
  /\ page' = [page EXCEPT !.joinDisabled = TRUE,
                          !.leaveDisabled = FALSE,
                          !.joins = Append(@, "getUserMedia"),
                          !.sockets = Append(@, NotCreated)]
  /\ UNCHANGED coordinator

\* The catch block of joinRoom
JoinFails(p, k) == [cleanupSession(p) EXCEPT !.joins[k] = "done"]

\* The k-th joinRoom call resumes from the await it is suspended at and runs
\* to its next await (or to its end).
JoinResume(k) ==
  /\ k \in 1..Len(page.joins)
  /\ page.joins[k] # "done"
  /\ page' =
       CASE page.joins[k] = "getUserMedia" ->
              [page EXCEPT !.localStream = k, !.joins[k] = "createCallsSession"]
         [] page.joins[k] = "createCallsSession" ->
              [page EXCEPT !.localSessionId = CallsIds[k], !.joins[k] = "createPeerConnection"]
         [] page.joins[k] = "createPeerConnection" ->
              [page EXCEPT !.localPeerConnection = k, !.joins[k] = "createOffer"]
         [] page.joins[k] = "createOffer" ->
              IF page.localPeerConnection = 0 THEN JoinFails(page, k)
              ELSE [page EXCEPT !.joins[k] = "setLocalDescription"]
         [] page.joins[k] = "setLocalDescription" ->
              [page EXCEPT !.joins[k] = "pushTracks"]
         [] page.joins[k] = "pushTracks" ->
              IF page.localPeerConnection = 0 THEN JoinFails(page, k)
              ELSE [page EXCEPT !.joins[k] = "setRemoteDescription"]
         [] page.joins[k] = "setRemoteDescription" ->
              [page EXCEPT !.ws = k, !.sockets[k] = CONNECTING, !.joins[k] = "done"]
  /\ UNCHANGED coordinator

\* click on Leave: leaveRoom()
LeaveClick ==
  /\ ~page.leaveDisabled
  /\ page.event.n < MaxPageEvents
  /\ LET closing == IF page.ws # 0 /\ page.sockets[page.ws] \in {CONNECTING, OPEN}
                       THEN [page EXCEPT !.sockets[page.ws] = CLOSING]
                       ELSE page
     IN  page' = Handled(cleanupSession(closing), "leaveClick", page.ws, "", "", FALSE)
  /\ UNCHANGED coordinator

\* The connection of socket s is established: ws.onopen sends the joinRoom
\* through the page's ws (send throws while that socket is CONNECTING and
\* drops the message once it is CLOSING or CLOSED).
SocketOpens(s) ==
  /\ s \in PageSockets
  /\ page.sockets[s] = CONNECTING
  /\ page.event.n < MaxPageEvents
  /\ LET opened == [page EXCEPT !.sockets[s] = OPEN]
         sends == opened.sockets[opened.ws] = OPEN
     IN  page' = Handled([opened EXCEPT !.sent = IF sends THEN Append(@, opened.localSessionId)
                                                ELSE @],
                         "open", s, "", "", FALSE)
  /\ UNCHANGED coordinator

\* The connection of socket s is closed (after a close() of the page, by the
\* peer, or because it failed): readyState becomes CLOSED, then the error
\* event is fired if the connection failed, then the close event.
SocketCloses(s, failed) ==
  /\ s \in PageSockets
  /\ s \notin page.dispatched
  /\ page.event.n < MaxPageEvents
  /\ LET closed == [page EXCEPT !.sockets[s] = CLOSED, !.dispatched = @ \cup {s}]
         onerror == IF failed THEN cleanupSessionOf(closed, s) ELSE closed
         onclose == cleanupSessionOf(onerror, s)
     IN  page' = Handled(onclose, IF failed THEN "error+close" ELSE "close", s, "", "", FALSE)
  /\ UNCHANGED coordinator

\* ws.onmessage of socket s up to its first await.
Deliver(s, message) ==
  /\ s \in PageSockets
  /\ page.sockets[s] = OPEN
  /\ page.event.n < MaxPageEvents
  /\ page' =
       CASE message.type = "participantJoined" ->
              Handled(handleNewRemoteParticipant(page, message.sessionId), "message", s,
                      "handleNewRemoteParticipant", message.sessionId,
                      message.sessionId \in page.remoteParticipantsMap)
         [] message.type = "existingParticipants" ->
              LET participant == Head(message.participants)
                  rest == Tail(message.participants)
                  first == handleNewRemoteParticipant(page, participant.sessionId)
              IN  Handled([first EXCEPT !.loops = IF rest = <<>> THEN @ ELSE Append(@, rest)],
                          "message", s, "handleNewRemoteParticipant", participant.sessionId,
                          participant.sessionId \in page.remoteParticipantsMap)
         [] message.type = "participantLeft" ->
              Handled(removeRemoteParticipant(page, message.sessionId), "message", s,
                      "removeRemoteParticipant", message.sessionId,
                      message.sessionId \in page.remoteParticipantsMap)
  /\ UNCHANGED coordinator

RemoveAt(seq, i) == [j \in 1..(Len(seq) - 1) |-> IF j < i THEN seq[j] ELSE seq[j + 1]]

\* The i-th suspended existingParticipants loop resumes: the awaited
\* handleNewRemoteParticipant either threw (the loop ends) or returned (the
\* next participant is handled).
LoopResumes(i, threw) ==
  /\ i \in 1..Len(page.loops)
  /\ IF threw
       THEN page' = [page EXCEPT !.loops = RemoveAt(@, i)]
       ELSE LET participant == Head(page.loops[i])
                rest == Tail(page.loops[i])
                next == handleNewRemoteParticipant(page, participant.sessionId)
            IN  page' = Handled([next EXCEPT !.loops = IF rest = <<>> THEN RemoveAt(@, i)
                                                        ELSE [@ EXCEPT ![i] = rest]],
                                "resume", 0, "handleNewRemoteParticipant", participant.sessionId,
                                participant.sessionId \in page.remoteParticipantsMap)
  /\ UNCHANGED coordinator

NextClient ==
  \/ JoinClick
  \/ \E k \in 1..MaxJoins : JoinResume(k)
  \/ LeaveClick
  \/ \E s \in 1..MaxJoins : SocketOpens(s)
  \/ \E s \in 1..MaxJoins, failed \in BOOLEAN : SocketCloses(s, failed)
  \/ \E s \in 1..MaxJoins, message \in PageMessages : Deliver(s, message)
  \/ \E i \in 1..MaxPageEvents, threw \in BOOLEAN : LoopResumes(i, threw)

SpecClient == Init /\ [][NextClient]_vars

\* ------------------------------------------------------------------------
\* The client's view of the room (ws.onmessage of the page)
\* ------------------------------------------------------------------------
\* The loop over an existingParticipants array: each entry goes through
\* handleNewRemoteParticipant, which adds the id unless the map has it; an
\* entry without sessionId makes participant.sessionId.substring throw, and
\* the rest of the array is not handled.
RECURSIVE handleExisting(_, _)
handleExisting(list, map) ==
  IF list = <<>> THEN map
  ELSE IF ~IsString(Get(Head(list), "sessionId")) THEN map
  ELSE handleExisting(Tail(list), map \cup {Head(list).sessionId})

\* The keys of remoteParticipantsMap after the client has handled the
\* messages msgs one after the other, starting from the keys in map.
RECURSIVE Replay(_, _)
Replay(msgs, map) ==
  IF msgs = <<>> THEN map
  ELSE LET message == Head(msgs)
       IN  IF message.type = "participantJoined"
             THEN Replay(Tail(msgs), map \cup {message.sessionId})
           ELSE IF message.type = "existingParticipants"
             THEN Replay(Tail(msgs), handleExisting(message.participants, map))
           ELSE IF message.type = "participantLeft"
             THEN Replay(Tail(msgs), map \ {message.sessionId})
           ELSE Replay(Tail(msgs), map)

\* ------------------------------------------------------------------------
\* Vocabulary of the properties
\* ------------------------------------------------------------------------
Last(s) == s[Len(s)]

\* The event is a joinRoom message that carries a string sessionId.
IsJoinEvent(e) ==
  /\ e.type = "message"
  /\ ~JSONparseThrows(e.data)
  /\ Get(e.data, "type") = "joinRoom"
  /\ IsString(Get(e.data, "sessionId"))

\* This step is the processing of one more event.
EventStep == lastEvent'.n = lastEvent.n + 1
JoinStep == EventStep /\ IsJoinEvent(lastEvent')
CloseStep == EventStep /\ lastEvent'.type = "close"

\* The public fields of a Map entry, as a client reads them from the wire.
Public(p) ==
  StripUndefined([sessionId |-> p.sessionId, userName |-> p.userName, trackInfo |-> p.trackInfo])

\* Every sessionId some socket's joinRoom has stored so far.
EverJoined == UNION {Range(joins[t]) : t \in Sockets}

ParticipantJoinedOf(data) ==
  participantJoined(data.sessionId, data.userName, data.trackInfo)

\* ------------------------------------------------------------------------
\* C1: when a joinRoom with a string id from an OPEN socket is processed, the
\* one message added to the sender's inbox is existingParticipants, and it
\* lists, without repetition, exactly the public fields of the entries that
\* were registered before this join under another id: never the sender's own
\* id, never missing an earlier entry, and only ids an earlier join stored.
\* ------------------------------------------------------------------------
C1_SnapshotOfEarlierJoins ==
  [][ (JoinStep /\ readyState[lastEvent'.ws] = OPEN) =>
        LET ws == lastEvent'.ws
            id == lastEvent'.data.sessionId
            reply == Last(inbox'[ws])
            earlier == {Public(participants[i]) :
                          i \in {j \in 1..Len(participants) : participants[j].sessionId # id}}
        IN  /\ Len(inbox'[ws]) = Len(inbox[ws]) + 1
            /\ reply.type = "existingParticipants"
            /\ Range(reply.participants) = earlier
            /\ Len(reply.participants) = Cardinality(earlier)
            /\ \A i \in 1..Len(reply.participants) :
                  /\ Get(reply.participants[i], "sessionId") # id
                  /\ Get(reply.participants[i], "sessionId") \in EverJoined
                  /\ "ws" \notin DOMAIN reply.participants[i]
    ]_vars

\* A socket that re-announces its id while another participant is registered
\* has just received a non-empty existingParticipants.
C1_Witness ==
  /\ IsJoinEvent(lastEvent)
  /\ readyState[lastEvent.ws] = OPEN
  /\ Len(joins[lastEvent.ws]) >= 2
  /\ joins[lastEvent.ws][Len(joins[lastEvent.ws]) - 1] = lastEvent.data.sessionId
  /\ Last(inbox[lastEvent.ws]).type = "existingParticipants"
  /\ Len(Last(inbox[lastEvent.ws]).participants) >= 1

\* ------------------------------------------------------------------------
\* C2: when a joinRoom with a string id from socket s is processed, every
\* socket other than s that is in the session array and OPEN gets exactly one
\* more message, the participantJoined with the joiner's id, name and tracks;
\* every other socket except s gets nothing, and s gets no participantJoined.
\* ------------------------------------------------------------------------
C2_JoinedToOtherOpenSessions ==
  [][ JoinStep =>
        LET ws == lastEvent'.ws
            msg == ParticipantJoinedOf(lastEvent'.data)
        IN  /\ \A t \in Sockets \ {ws} :
                  inbox'[t] = IF t \in Range(sessions) /\ readyState[t] = OPEN
                                THEN Append(inbox[t], msg)
                                ELSE inbox[t]
            /\ \A k \in (Len(inbox[ws]) + 1)..Len(inbox'[ws]) :
                  inbox'[ws][k].type # "participantJoined"
    ]_vars

\* A join has just been announced to an OPEN socket while another listed
\* socket was not OPEN, and the sender got its reply.
C2_Witness ==
  /\ IsJoinEvent(lastEvent)
  /\ \E t \in Range(sessions) \ {lastEvent.ws} :
        /\ readyState[t] = OPEN
        /\ inbox[t] # <<>>
        /\ Last(inbox[t]) = ParticipantJoinedOf(lastEvent.data)
  /\ \E r \in Range(sessions) \ {lastEvent.ws} : readyState[r] # OPEN
  /\ Last(inbox[lastEvent.ws]).type = "existingParticipants"

\* ------------------------------------------------------------------------
\* C3 (as claimed): when a socket that has completed a join closes, every
\* socket still in the session array and OPEN receives exactly one more
\* message, a participantLeft carrying an id the closing socket joined with,
\* and no entry of the closing socket stays in the Map.
\* ------------------------------------------------------------------------
HasCompletedJoin(ws) == \E k \in 1..Len(joins[ws]) : IsString(joins[ws][k])

C3_LeftToAllRemaining ==
  [][ (CloseStep /\ HasCompletedJoin(lastEvent'.ws)) =>
        LET ws == lastEvent'.ws
        IN  /\ \E id \in {i \in Range(joins[ws]) : IsString(i)} :
                  \A t \in Range(sessions') :
                    readyState[t] = OPEN =>
                      inbox'[t] = Append(inbox[t], [type |-> "participantLeft", sessionId |-> id])
            /\ \A i \in 1..Len(participants') : participants'[i].ws # ws
    ]_vars

\* ------------------------------------------------------------------------
\* C4: when a socket closes that never had a joinRoom stored, no message is
\* sent to any socket and the Map is unchanged; the session array loses
\* exactly that socket and keeps the others in order.
\* ------------------------------------------------------------------------
C4_CloseBeforeJoin ==
  [][ (CloseStep /\ joins[lastEvent'.ws] = <<>>) =>
        /\ inbox' = inbox
        /\ participants' = participants
        /\ lastEvent'.ws \in Range(sessions)
        /\ sessions' = SelectSeq(sessions, LAMBDA s : s # lastEvent'.ws)
        /\ Len(sessions') = Len(sessions) - 1
    ]_vars

\* A socket that never joined has just closed while another socket is
\* registered, OPEN and still in the session array.
C4_Witness ==
  /\ lastEvent.type = "close"
  /\ joins[lastEvent.ws] = <<>>
  /\ lastEvent.ws \notin Range(sessions)
  /\ \E i \in 1..Len(participants) :
        /\ participants[i].ws \in Range(sessions)
        /\ readyState[participants[i].ws] = OPEN
        /\ Truthy(participants[i].sessionId)

\* ------------------------------------------------------------------------
\* C5 (as claimed): the session array is never shorter than the Map, here
\* already for histories in which every stored joinRoom carried a string id.
\* ------------------------------------------------------------------------
OnlyStringIdsJoined == \A id \in EverJoined : IsString(id)

C5_SessionsAtLeastParticipants ==
  OnlyStringIdsJoined => Len(sessions) >= Len(participants)

\* ------------------------------------------------------------------------
\* C6 (as claimed): every entry of the Map references a socket that is in
\* the session array, here already for histories in which every stored
\* joinRoom carried a string id.
\* ------------------------------------------------------------------------
C6_ParticipantsReferenceSessions ==
  OnlyStringIdsJoined =>
    \A i \in 1..Len(participants) : participants[i].ws \in Range(sessions)

\* ------------------------------------------------------------------------
\* C7: if two distinct sockets A and B are both still OPEN and attached, each
\* has had exactly one joinRoom processed, with distinct string ids, and no
\* other socket has joined, then A has been sent B's id (in a
\* participantJoined or in an existingParticipants list) and B has been sent
\* A's id, whatever the order of their connects and joins was.
\* ------------------------------------------------------------------------
Knows(s, id) ==
  \E k \in 1..Len(inbox[s]) :
    \/ inbox[s][k].type = "participantJoined" /\ inbox[s][k].sessionId = id
    \/ /\ inbox[s][k].type = "existingParticipants"
       /\ \E j \in 1..Len(inbox[s][k].participants) :
             Get(inbox[s][k].participants[j], "sessionId") = id

JoinedOnce(s) ==
  /\ s \in listening
  /\ readyState[s] = OPEN
  /\ Len(joins[s]) = 1
  /\ IsString(joins[s][1])

TwoJoiners(A, B) ==
  /\ A # B
  /\ JoinedOnce(A)
  /\ JoinedOnce(B)
  /\ joins[A][1] # joins[B][1]
  /\ \A C \in Sockets \ {A, B} : joins[C] = <<>>

C7_MutualNotification ==
  \A A, B \in Sockets :
    TwoJoiners(A, B) => Knows(A, joins[B][1]) /\ Knows(B, joins[A][1])

\* Two joiners, the later one of them connected first, while a third socket
\* that never joined is attached and OPEN.
C7_Witness ==
  \E A, B \in Sockets :
    /\ TwoJoiners(A, B)
    /\ B < A
    /\ Last(inbox[A]).type = "participantJoined"
    /\ Last(inbox[B]).type = "existingParticipants"
    /\ Knows(A, joins[B][1])
    /\ Knows(B, joins[A][1])
    /\ \E C \in Sockets \ {A, B} : C \in listening /\ readyState[C] = OPEN

\* ------------------------------------------------------------------------
\* C8 (as claimed): for every attached OPEN socket s that has joined, the ids
\* obtained by replaying the messages s was sent equal the keys of the Map
\* other than s's own id.  Stated here already for the histories in which
\* every joinRoom carried a string id, every socket used one id only and no
\* two sockets used the same id.
\* ------------------------------------------------------------------------
OneIdPerSocket ==
  /\ OnlyStringIdsJoined
  /\ \A s \in Sockets : Cardinality(Range(joins[s])) <= 1
  /\ \A s, t \in Sockets : s # t => Range(joins[s]) \cap Range(joins[t]) = {}

C8_ViewsMatchRegistry ==
  OneIdPerSocket =>
    \A s \in listening :
      (readyState[s] = OPEN /\ joins[s] # <<>>) =>
        Replay(inbox[s], {}) = MapKeys(participants) \ Range(joins[s])

\* ------------------------------------------------------------------------
\* C9: when a socket sends again the joinRoom it sent last, with the same id
\* and payload, and the Map still holds its record, the Map is unchanged and
\* holds exactly one record for the id, and every other listed OPEN socket
\* is sent one more participantJoined for it, so one per join.
\* ------------------------------------------------------------------------
RecordOf(ws, data) ==
  [sessionId |-> data.sessionId, ws |-> ws, userName |-> data.userName,
   trackInfo |-> data.trackInfo]

CountJoined(msgs, id) ==
  Cardinality({k \in 1..Len(msgs) :
                 msgs[k].type = "participantJoined" /\ msgs[k].sessionId = id})

Repeats(ws, data) ==
  /\ joins[ws] # <<>>
  /\ Last(joins[ws]) = data.sessionId
  /\ RecordOf(ws, data) \in Range(participants)

C9_JoinIdempotent ==
  [][ (JoinStep /\ Repeats(lastEvent'.ws, lastEvent'.data)) =>
        LET ws == lastEvent'.ws
            data == lastEvent'.data
        IN  /\ participants' = participants
            /\ Cardinality({i \in 1..Len(participants') :
                               participants'[i].sessionId = data.sessionId}) = 1
            /\ \A t \in Range(sessions) \ {ws} :
                  readyState[t] = OPEN =>
                    /\ Last(inbox'[t]) = ParticipantJoinedOf(data)
                    /\ CountJoined(inbox'[t], data.sessionId)
                         = CountJoined(inbox[t], data.sessionId) + 1
    ]_vars

\* A socket has just repeated its join, and another OPEN socket holds the
\* two equal participantJoined messages, one per join.
C9_Witness ==
  /\ IsJoinEvent(lastEvent)
  /\ Len(joins[lastEvent.ws]) >= 2
  /\ joins[lastEvent.ws][Len(joins[lastEvent.ws]) - 1] = lastEvent.data.sessionId
  /\ Cardinality({i \in 1..Len(participants) :
                    participants[i] = RecordOf(lastEvent.ws, lastEvent.data)}) = 1
  /\ \E t \in Range(sessions) \ {lastEvent.ws} :
        /\ readyState[t] = OPEN
        /\ Len(inbox[t]) >= 2
        /\ Last(inbox[t]) = ParticipantJoinedOf(lastEvent.data)
        /\ inbox[t][Len(inbox[t]) - 1] = ParticipantJoinedOf(lastEvent.data)

\* ------------------------------------------------------------------------
\* C10: a socket that is still in the session array but no longer OPEN is
\* skipped by a broadcast, and the broadcast still reaches every other OPEN
\* socket: on a join, the listed sockets that are not OPEN get nothing, the
\* other OPEN ones get the participantJoined and an OPEN sender gets its
\* existingParticipants; on a close that announces a departure, the
\* remaining sockets that are not OPEN get nothing and the OPEN ones get the
\* participantLeft.
\* ------------------------------------------------------------------------
NotOpenListed(list) == {r \in Range(list) : readyState[r] # OPEN}

C10_BroadcastIsolated ==
  [][ /\ (JoinStep /\ NotOpenListed(sessions) \ {lastEvent'.ws} # {}) =>
          LET ws == lastEvent'.ws
          IN  /\ \A r \in NotOpenListed(sessions) \ {ws} : inbox'[r] = inbox[r]
              /\ \A t \in Range(sessions) \ {ws} :
                    readyState[t] = OPEN =>
                      inbox'[t] = Append(inbox[t], ParticipantJoinedOf(lastEvent'.data))
              /\ readyState[ws] = OPEN =>
                    /\ Len(inbox'[ws]) = Len(inbox[ws]) + 1
                    /\ Last(inbox'[ws]).type = "existingParticipants"
      /\ (CloseStep /\ NotOpenListed(sessions') # {}
             /\ Truthy(leavingSessionId(participants, lastEvent'.ws))) =>
          LET id == leavingSessionId(participants, lastEvent'.ws)
          IN  /\ \A r \in NotOpenListed(sessions') : inbox'[r] = inbox[r]
              /\ \A t \in Range(sessions') :
                    readyState[t] = OPEN =>
                      inbox'[t] = Append(inbox[t], [type |-> "participantLeft", sessionId |-> id])
    ]_vars

\* A join has just been processed while a listed socket was not OPEN: that
\* socket has been sent nothing at all, an OPEN one holds the
\* participantJoined and the sender its existingParticipants.
C10_Witness ==
  /\ IsJoinEvent(lastEvent)
  /\ \E r \in NotOpenListed(sessions) \ {lastEvent.ws} : inbox[r] = <<>>
  /\ \E t \in Range(sessions) \ {lastEvent.ws} :
        /\ readyState[t] = OPEN
        /\ inbox[t] # <<>>
        /\ Last(inbox[t]) = ParticipantJoinedOf(lastEvent.data)
  /\ readyState[lastEvent.ws] = OPEN
  /\ Last(inbox[lastEvent.ws]).type = "existingParticipants"

\* The same on a close: the departure has been announced to an OPEN socket
\* while another remaining socket was not OPEN.
C10_WitnessClose ==
  /\ lastEvent.type = "close"
  /\ \E r \in NotOpenListed(sessions) : inbox[r] = <<>>
  /\ \E t \in Range(sessions) :
        /\ readyState[t] = OPEN
        /\ inbox[t] # <<>>
        /\ Last(inbox[t]).type = "participantLeft"

\* ------------------------------------------------------------------------
\* C11 (as claimed): when the error listener of a socket has run, the socket
\* is no longer in the session array, no entry of the socket is left in the
\* Map, and if it had an entry with a truthy id every remaining OPEN socket
\* has been sent the participantLeft with that id, as on a close.
\* ------------------------------------------------------------------------
ErrorStep == EventStep /\ lastEvent'.type = "error"

Owns(m, ws) == \E i \in 1..Len(m) : m[i].ws = ws

C11_ErrorCleansUp ==
  [][ ErrorStep =>
        LET ws == lastEvent'.ws
            id == leavingSessionId(participants, ws)
        IN  /\ ws \notin Range(sessions')
            /\ ~Owns(participants', ws)
            /\ Truthy(id) =>
                  \A t \in Range(sessions') :
                    readyState[t] = OPEN =>
                      inbox'[t] = Append(inbox[t], [type |-> "participantLeft", sessionId |-> id])
    ]_vars

\* ------------------------------------------------------------------------
\* C12: when a joinRoom with a string id that is already a key of the Map is
\* processed, the Map keeps its other entries and their order and holds
\* exactly one entry for the id, carrying the payload and the socket of this
\* join; every other listed OPEN socket is sent the participantJoined with
\* the new payload; and whatever an existingParticipants reply lists is the
\* public part of an entry the Map holds at that moment, so the latest one.
\* ------------------------------------------------------------------------
C12_LastWriteWins ==
  [][ /\ (JoinStep /\ MapHas(participants, lastEvent'.data.sessionId)) =>
          LET ws == lastEvent'.ws
              data == lastEvent'.data
          IN  /\ Len(participants') = Len(participants)
              /\ \A i \in 1..Len(participants) :
                    participants'[i] = IF participants[i].sessionId = data.sessionId
                                         THEN RecordOf(ws, data)
                                         ELSE participants[i]
              /\ Cardinality({i \in 1..Len(participants') :
                                 participants'[i].sessionId = data.sessionId}) = 1
              /\ \A t \in Range(sessions) \ {ws} :
                    readyState[t] = OPEN =>
                      inbox'[t] = Append(inbox[t], ParticipantJoinedOf(data))
      /\ (JoinStep /\ readyState[lastEvent'.ws] = OPEN) =>
          Range(Last(inbox'[lastEvent'.ws]).participants)
            \subseteq {Public(participants'[i]) : i \in 1..Len(participants')}
    ]_vars

\* A socket has just joined and was told the latest track list of an id that
\* had been announced to it twice, first with one track and then with two.
C12_Witness ==
  /\ IsJoinEvent(lastEvent)
  /\ Len(inbox[lastEvent.ws]) >= 3
  /\ \E j, k \in 1..Len(inbox[lastEvent.ws]) :
        /\ j < k
        /\ inbox[lastEvent.ws][j] = participantJoined("a1", "Ann", <<Cam>>)
        /\ inbox[lastEvent.ws][k] = participantJoined("a1", "Ann", <<Cam, Mic>>)
  /\ Last(inbox[lastEvent.ws]).type = "existingParticipants"
  /\ [sessionId |-> "a1", userName |-> "Ann", trackInfo |-> <<Cam, Mic>>]
       \in Range(Last(inbox[lastEvent.ws]).participants)
  /\ \E i \in 1..Len(participants) :
        participants[i].sessionId = "a1" /\ participants[i].trackInfo = <<Cam, Mic>>

\* ------------------------------------------------------------------------
\* C13: when a joinRoom with a string id from an OPEN socket is processed,
\* exactly one existingParticipants message is sent: the sender's inbox gains
\* one, no other socket's inbox gains any, and each entry of it has no field
\* besides sessionId, userName and trackInfo.
\* ------------------------------------------------------------------------
CountExisting(msgs) ==
  Cardinality({k \in 1..Len(msgs) : msgs[k].type = "existingParticipants"})

PublicFields == {"sessionId", "userName", "trackInfo"}

C13_OneReplyToSenderOnly ==
  [][ (JoinStep /\ readyState[lastEvent'.ws] = OPEN) =>
        LET ws == lastEvent'.ws
        IN  /\ CountExisting(inbox'[ws]) = CountExisting(inbox[ws]) + 1
            /\ \A t \in Sockets \ {ws} : CountExisting(inbox'[t]) = CountExisting(inbox[t])
            /\ \A i \in 1..Len(Last(inbox'[ws]).participants) :
                  DOMAIN Last(inbox'[ws]).participants[i] \subseteq PublicFields
    ]_vars

\* An OPEN socket has just joined a room with two other OPEN sockets, one
\* of them registered: it alone holds the reply, which lists that one.
C13_Witness ==
  /\ IsJoinEvent(lastEvent)
  /\ readyState[lastEvent.ws] = OPEN
  /\ CountExisting(inbox[lastEvent.ws]) = 1
  /\ Len(Last(inbox[lastEvent.ws]).participants) = 1
  /\ Cardinality({t \in Range(sessions) \ {lastEvent.ws} :
                    /\ readyState[t] = OPEN
                    /\ inbox[t] # <<>>
                    /\ Last(inbox[t]) = ParticipantJoinedOf(lastEvent.data)}) = 2

\* ------------------------------------------------------------------------
\* C14 (as claimed): a message that is not JSON, or a joinRoom whose
\* sessionId is not a string, leaves the Map and the session array as they
\* were, sends nothing, and leaves the sender attached.
\* ------------------------------------------------------------------------
IsMalformed(e) ==
  /\ e.type = "message"
  /\ \/ JSONparseThrows(e.data)
     \/ Get(e.data, "type") = "joinRoom" /\ ~IsString(Get(e.data, "sessionId"))

C14_MalformedIgnored ==
  [][ (EventStep /\ IsMalformed(lastEvent')) =>
        /\ participants' = participants
        /\ sessions' = sessions
        /\ inbox' = inbox
        /\ lastEvent'.ws \in listening'
        /\ lastEvent'.ws \in Range(sessions')
    ]_vars

\* ------------------------------------------------------------------------
\* C15: a message that parses and whose type is not joinRoom changes nothing:
\* the Map, the session array, every inbox and the record of who has joined
\* stay as they were, and the sender stays attached.
\* ------------------------------------------------------------------------
IsOtherType(e) ==
  /\ e.type = "message"
  /\ ~JSONparseThrows(e.data)
  /\ Get(e.data, "type") # "joinRoom"

C15_OtherTypeIgnored ==
  [][ (EventStep /\ IsOtherType(lastEvent')) =>
        /\ participants' = participants
        /\ sessions' = sessions
        /\ inbox' = inbox
        /\ joins' = joins
        /\ readyState' = readyState
        /\ listening' = listening
    ]_vars

\* A message of another type has just come from a socket that has joined,
\* and another one from a socket that has not, with a second socket OPEN.
C15_Witness ==
  /\ IsOtherType(lastEvent)
  /\ Owns(participants, lastEvent.ws)
  /\ \E t \in Range(sessions) \ {lastEvent.ws} : readyState[t] = OPEN /\ joins[t] = <<>>

\* ------------------------------------------------------------------------
\* C16 (under SpecRooms): a connection made with a room name whose instance
\* exists is pushed onto that instance's session array and finds its Map as
\* it was; and every event of one room (connect, message, close, error)
\* leaves the session array and the Map of every other instance as they
\* were and adds nothing to the inbox of a socket attached to another room.
\* ------------------------------------------------------------------------
EventRoom ==
  IF lastEvent'.type = "connect" THEN lastEvent'.data.room ELSE RoomOf(lastEvent'.ws)

C16_RoomsIndependent ==
  [][ EventStep =>
        LET r == EventRoom
        IN  /\ Instances' = Instances \cup {r}
            /\ \A q \in Instances \ {r} :
                  /\ sessions'[q] = sessions[q]
                  /\ participants'[q] = participants[q]
                  /\ \A t \in Range(sessions[q]) : inbox'[t] = inbox[t]
            /\ (lastEvent'.type = "connect" /\ r \in Instances) =>
                  /\ sessions'[r] = Append(sessions[r], lastEvent'.ws)
                  /\ participants'[r] = participants[r]
    ]_vars

\* A join has just been announced inside one room while another room has a
\* registered OPEN socket that was not sent it.
C16_Witness ==
  /\ IsJoinEvent(lastEvent)
  /\ Attached(lastEvent.ws)
  /\ \E u \in Range(sessions[RoomOf(lastEvent.ws)]) \ {lastEvent.ws} :
        inbox[u] # <<>> /\ Last(inbox[u]) = ParticipantJoinedOf(lastEvent.data)
  /\ \E q \in Instances \ {RoomOf(lastEvent.ws)} :
        \E t \in Range(sessions[q]) :
          /\ readyState[t] = OPEN
          /\ Owns(participants[q], t)
          /\ ParticipantJoinedOf(lastEvent.data) \notin Range(inbox[t])

\* ------------------------------------------------------------------------
\* C17 (under SpecSteps): while a listener is between its first statement
\* and its return, the next step is a statement of that same listener: no
\* connect, message, close or error event is dispatched.  So from the
\* registry insert of a join to its reply the session array and the registry
\* stay as the insert left them and the only messages sent are this join's
\* participantJoined and its reply; and from a close listener's session
\* removal to the end of its broadcast the session array stays as the filter
\* left it, the registry loses at most the leaver's entry and the only
\* messages sent are participantLeft.
\* ------------------------------------------------------------------------
SentInStep(t) ==
  IF Len(inbox'[t]) = Len(inbox[t]) + 1 /\ SubSeq(inbox'[t], 1, Len(inbox[t])) = inbox[t]
    THEN {Last(inbox'[t]).type}
    ELSE IF inbox'[t] = inbox[t] THEN {} ELSE {"?"}

C17_ListenersRunToCompletion ==
  [][ Running =>
        /\ ~EventStep
        /\ lastEvent'.n = lastEvent.n /\ lastEvent'.ws = lastEvent.ws
        /\ sessions' = sessions
        /\ lastEvent.type = "message" =>
              /\ participants' = participants
              /\ \A t \in Sockets : SentInStep(t) \subseteq
                    (IF t = lastEvent.ws THEN {"existingParticipants"} ELSE {"participantJoined"})
        /\ lastEvent.type = "close" =>
              /\ participants' \in {participants, RemoveLeaving(participants, lastEvent.ws)}
              /\ \A t \in Sockets : SentInStep(t) \subseteq {"participantLeft"}
    ]_vars

\* A join is between its broadcast and its reply: its record is stored, a
\* second socket has just been sent its participantJoined, and that second
\* socket and a third one still have their listeners registered.
C17_Witness ==
  /\ Running
  /\ lastEvent.type = "message"
  /\ lastEvent.pc = "reply"
  /\ MapHas(participants, lastEvent.data.sessionId)
  /\ \E t \in listening \ {lastEvent.ws} :
        /\ inbox[t] # <<>>
        /\ Last(inbox[t]) = ParticipantJoinedOf(lastEvent.data)
        /\ \E u \in listening \ {lastEvent.ws, t} : readyState[u] = OPEN

\* A close listener is in its broadcast: the leaver is out of the session
\* array and of the registry, and another socket is still listening.
C17_WitnessClose ==
  /\ Running
  /\ lastEvent.type = "close"
  /\ lastEvent.pc = "leftForEach"
  /\ lastEvent.ws \notin Range(sessions)
  /\ ~Owns(participants, lastEvent.ws)
  /\ \E t \in listening : readyState[t] = OPEN

\* ------------------------------------------------------------------------
\* C18 (as claimed): a socket whose joinRoom has been processed owns an entry
\* of the Map from then on, through every event that is not its own close or
\* error: a processed join leaves its sender owning an entry, and no event of
\* another socket (a join that reuses the id included) takes a socket's last
\* entry away.  Stated for joins that carry a non-empty string id.
\* ------------------------------------------------------------------------
TeardownOf(s) ==
  EventStep /\ lastEvent'.type \in {"close", "error"} /\ lastEvent'.ws = s

OnlyTruthyIdsJoined == \A id \in EverJoined : Truthy(id)

C18_JoinedStaysJoined ==
  [][ OnlyTruthyIdsJoined' =>
        /\ JoinStep => Owns(participants', lastEvent'.ws)
        /\ \A s \in Sockets :
              (Owns(participants, s) /\ ~TeardownOf(s)) => Owns(participants', s)
    ]_vars

\* ------------------------------------------------------------------------
\* C20 (as claimed): whichever of close and error the transport dispatches
\* first for a joined socket, that event runs the cleanup: the socket leaves
\* the session array, its entry leaves the Map and every remaining OPEN
\* socket is sent exactly one participantLeft with its id, the others
\* nothing; a close or error dispatched for a socket already cleaned up
\* changes nothing.  Stated for sockets that joined under one non-empty id
\* of their own.
\* ------------------------------------------------------------------------
C20_CleanupExactlyOnce ==
  [][ OneIdPerSocket =>
        \A s \in Sockets :
          LET id == leavingSessionId(participants, s)
              left == [type |-> "participantLeft", sessionId |-> id]
          IN  /\ (TeardownOf(s) /\ s \in Range(sessions) /\ Truthy(id)) =>
                    /\ s \notin Range(sessions')
                    /\ ~Owns(participants', s)
                    /\ \A t \in Range(sessions') :
                          inbox'[t] = IF readyState[t] = OPEN
                                        THEN Append(inbox[t], left) ELSE inbox[t]
              /\ (TeardownOf(s) /\ s \notin Range(sessions)) =>
                    UNCHANGED <<sessions, participants, inbox>>
    ]_vars

\* ------------------------------------------------------------------------
\* C21 (as claimed): in every reachable state at most one entry of the Map
\* references any given socket, so that the close listener's scan, which
\* deletes the first entry of the closing socket and breaks, leaves no entry
\* of it behind.  Stated for joins that carry a non-empty string id.
\* ------------------------------------------------------------------------
EntriesOf(m, ws) == {i \in 1..Len(m) : m[i].ws = ws}

C21_OneRecordPerSocket ==
  OnlyTruthyIdsJoined =>
    \A s \in Sockets : Cardinality(EntriesOf(participants, s)) <= 1

\* ------------------------------------------------------------------------
\* C22 (as claimed): when the close listener's scan finds an entry of the
\* closing socket, every remaining OPEN socket is sent the participantLeft
\* with the id of that entry, whatever string that id is (the empty string
\* included).
\* ------------------------------------------------------------------------
C22_LeftWhateverTheId ==
  [][ (CloseStep /\ OnlyStringIdsJoined /\ FirstOwned(participants, lastEvent'.ws) # 0) =>
        LET id == leavingSessionId(participants, lastEvent'.ws)
        IN  \A t \in Range(sessions') :
              readyState[t] = OPEN =>
                /\ Len(inbox'[t]) = Len(inbox[t]) + 1
                /\ Last(inbox'[t]) = [type |-> "participantLeft", sessionId |-> id]
    ]_vars

\* ------------------------------------------------------------------------
\* C23 (as claimed): in the messages a socket has been sent, every
\* participantLeft is preceded by a participantJoined with the same id or by
\* an existingParticipants that lists that id.
\* ------------------------------------------------------------------------
Tells(msg, id) ==
  \/ msg.type = "participantJoined" /\ Get(msg, "sessionId") = id
  \/ /\ msg.type = "existingParticipants"
     /\ \E j \in 1..Len(msg.participants) : Get(msg.participants[j], "sessionId") = id

ToldBefore(t, k) ==
  \E j \in 1..(k - 1) : Tells(inbox[t][j], inbox[t][k].sessionId)

C23_LeftOnlyAfterTold ==
  \A t \in Sockets : \A k \in 1..Len(inbox[t]) :
    inbox[t][k].type = "participantLeft" => ToldBefore(t, k)

\* C23 (amended): every participantLeft that a socket is sent after the
\* reply to its own join is preceded by a participantJoined with the same id
\* or by an existingParticipants that lists that id.  (A socket that is
\* attached but has not joined is sent the participantLeft of ids it was
\* never told of.)
AnsweredBefore(t, k) ==
  \E j \in 1..(k - 1) : inbox[t][j].type = "existingParticipants"

C23_LeftAfterOwnJoinOnlyAfterTold ==
  \A t \in Sockets : \A k \in 1..Len(inbox[t]) :
    (inbox[t][k].type = "participantLeft" /\ AnsweredBefore(t, k)) => ToldBefore(t, k)

\* A socket joined, was told of an id by the reply to its join, and has then
\* been sent the participantLeft of that id.
C23_Witness ==
  \E t \in Sockets : \E k \in 1..Len(inbox[t]) :
    /\ inbox[t][k].type = "participantLeft"
    /\ \E j \in 1..(k - 1) :
          /\ inbox[t][j].type = "existingParticipants"
          /\ Tells(inbox[t][j], inbox[t][k].sessionId)

\* ------------------------------------------------------------------------
\* C24 (as claimed, under SpecClient): when the close event (with or without
\* an error event before it) of a socket that leaveRoom closed is dispatched
\* after a later joinRoom has been called, the page keeps what that later
\* join has set up: localSessionId is not reset, no further local stream is
\* stopped, no further peer connection is closed or dropped, and the map of
\* remote participants is not cleared.
\* ------------------------------------------------------------------------
PageEventStep == page'.event.n = page.event.n + 1

LateCloseOf(s) ==
  /\ PageEventStep
  /\ page'.event.type \in {"close", "error+close"}
  /\ page'.event.ws = s
  /\ page.sockets[s] = CLOSING
  /\ Len(page.joins) > s

C24_LateCloseSparesNewJoin ==
  [][ \A s \in PageSockets :
        LateCloseOf(s) =>
          /\ page'.localSessionId = page.localSessionId
          /\ page'.stopped = page.stopped
          /\ page'.closed = page.closed
          /\ page'.localPeerConnection = page.localPeerConnection
          /\ page'.remoteParticipantsMap = page.remoteParticipantsMap
    ]_vars

\* ------------------------------------------------------------------------
\* C25 (under SpecClient): a participantJoined, or an entry of an
\* existingParticipants array, whose id is a key of the map when it is
\* handled leaves the map as it is and issues no track-pull request; a
\* participantLeft whose id is not a key of the map changes nothing of the
\* page; and an id that is not a key is added with exactly one pull request.
\* ------------------------------------------------------------------------
C25_RemoteHandlingIdempotent ==
  [][ PageEventStep =>
        LET e == page'.event
        IN  /\ (e.call = "handleNewRemoteParticipant" /\ e.id \in page.remoteParticipantsMap) =>
                  /\ page'.remoteParticipantsMap = page.remoteParticipantsMap
                  /\ page'.pulls = page.pulls
            /\ (e.call = "handleNewRemoteParticipant" /\ e.id \notin page.remoteParticipantsMap) =>
                  /\ page'.remoteParticipantsMap = page.remoteParticipantsMap \cup {e.id}
                  /\ page'.pulls = [page.pulls EXCEPT ![e.id] = @ + 1]
            /\ (e.call = "removeRemoteParticipant" /\ e.id \notin page.remoteParticipantsMap) =>
                  page' = [page EXCEPT !.event = e]
    ]_vars

\* An id already in the map has just been handled again: it was announced by
\* a participantJoined or listed by an existingParticipants while a key.
C25_Witness ==
  /\ page.event.call = "handleNewRemoteParticipant"
  /\ page.event.has
  /\ page.event.id \in page.remoteParticipantsMap
  /\ page.pulls[page.event.id] = 1

\* A participantLeft for an id that was not in the map has just been handled
\* while another id was in it.
C25_WitnessLeft ==
  /\ page.event.call = "removeRemoteParticipant"
  /\ ~page.event.has
  /\ page.remoteParticipantsMap # {}

====
